---- MODULE Spec2Model ----
(***************************************************************************)
(* A model of the restbl crate: the RESTBL binary layout and its reader    *)
(* (src/src/bin.rs), the fixed-length Name and the CRC hash                *)
(* (src/src/util.rs), the owned ResourceSizeTable (src/src/lib.rs) and the *)
(* line-oriented text form (src/src/text.rs).                              *)
(*                                                                         *)
(* Representation of machine integers.  TLC's integers are 32-bit signed,  *)
(* so a u32 or a usize is kept as a little-endian sequence of 16-bit limbs *)
(* (a "word"): a u32 is <<low, high>>, a usize has USIZE_LIMBS limbs.      *)
(* Arithmetic on words wraps at the word's width.  A byte is an integer in *)
(* 0..255 and a byte buffer, a str or a String is a sequence of bytes.     *)
(***************************************************************************)
EXTENDS Integers, Sequences, FiniteSets, TLC

VARIABLES
    data,     \* the byte buffer handed to ResTblReader::new / from_binary
    text,     \* the text handed to from_text
    lines,    \* from_text: the lines of `text` not yet processed
    table,    \* the ResourceSizeTable being operated on (or being built)
    prev,     \* `table` as it was before the last operation
    call,     \* the last operation: its name, its arguments and what it returned
    pc        \* where the scenario stands

vars == <<data, text, lines, table, prev, call, pc>>

\* ------------------------------------------------------------------------
\* Words: fixed-width unsigned integers
\* ------------------------------------------------------------------------

Limb == 256 * 256

\* usize on the crate's documented target (aarch64) is 64 bits: 4 limbs.
USIZE_LIMBS == 4

Min(S) == CHOOSE x \in S : \A y \in S : x <= y

RECURSIVE WordFromInt(_, _)
WordFromInt(n, limbs) ==
    IF limbs = 0 THEN <<>>
    ELSE <<n % Limb>> \o WordFromInt(n \div Limb, limbs - 1)

\* a u32 literal (n < 2^31) and a usize value such as a slice length
U32(n) == WordFromInt(n, 2)
USize(n) == WordFromInt(n, USIZE_LIMBS)

\* `x as usize` for a u32 x: zero extension
AsUsize(w) == w \o [i \in 1..(USIZE_LIMBS - Len(w)) |-> 0]

\* core::cmp::Ord::cmp on unsigned integers of equal width
RECURSIVE WordCmp(_, _)
WordCmp(a, b) ==
    IF Len(a) = 0 THEN "Equal"
    ELSE LET n == Len(a) IN
         IF a[n] < b[n] THEN "Less"
         ELSE IF a[n] > b[n] THEN "Greater"
         ELSE WordCmp(SubSeq(a, 1, n - 1), SubSeq(b, 1, n - 1))

WordLess(a, b) == WordCmp(a, b) = "Less"

\* a + b + carry and a * k + carry, wrapping at the width of a
RECURSIVE WordAddC(_, _, _)
WordAddC(a, b, c) ==
    IF Len(a) = 0 THEN <<>>
    ELSE LET s == a[1] + b[1] + c IN
         <<s % Limb>> \o WordAddC(Tail(a), Tail(b), s \div Limb)

WordAdd(a, b) == WordAddC(a, b, 0)

RECURSIVE WordMulC(_, _, _)
WordMulC(a, k, c) ==
    IF Len(a) = 0 THEN <<>>
    ELSE LET s == a[1] * k + c IN
         <<s % Limb>> \o WordMulC(Tail(a), k, s \div Limb)

WordMul(a, k) == WordMulC(a, k, 0)

\* bitwise exclusive or of two limbs
RECURSIVE LimbXor(_, _)
LimbXor(a, b) ==
    IF a = 0 THEN b
    ELSE IF b = 0 THEN a
    ELSE ((a + b) % 2) + 2 * LimbXor(a \div 2, b \div 2)

\* ------------------------------------------------------------------------
\* Results
\* ------------------------------------------------------------------------

Ok(v) == [tag |-> "Ok", val |-> v]
Err(e) == [tag |-> "Err", err |-> e]
\* the call does not return: a panic (an out-of-range slice index, ...)
Panic(m) == [tag |-> "Panic", msg |-> m]

InsufficientData(found, what) ==
    [kind |-> "InsufficientData", found |-> found, expected |-> what]
InvalidMagic(bytes) == [kind |-> "InvalidMagic", magic |-> bytes]
InvalidTableSize(found, expected) ==
    [kind |-> "InvalidTableSize", found |-> found, expected |-> expected]
Utf8Error == [kind |-> "Utf8Error"]
InsufficientBuffer(found, expected) ==
    [kind |-> "InsufficientBuffer", found |-> found, expected |-> expected]

\* ------------------------------------------------------------------------
\* util.rs
\* ------------------------------------------------------------------------

NAME_SIZE == 160

\* u32::from_le_bytes and, on the little-endian target, the bytes of a u32
U32FromLeBytes(b) == <<b[1] + 256 * b[2], b[3] + 256 * b[4]>>
U32Bytes(w) == <<w[1] % 256, w[1] \div 256, w[2] % 256, w[2] \div 256>>

\* read_u32(value, offset); offset None is 0
read_u32(value, offset) ==
    IF Len(value) < 4 + offset
    THEN Err(InsufficientData(USize(Len(value) - offset), "4 bytes for u32"))
    ELSE Ok(U32FromLeBytes(SubSeq(value, offset + 1, offset + 4)))

\* One round of the CRC loop: crc ^= byte, then 8 shift steps.
RECURSIVE CrcShift(_, _)
CrcShift(crc, j) ==
    IF j = 8 THEN crc
    ELSE LET shifted == <<(crc[1] \div 2) + (crc[2] % 2) * 32768, crc[2] \div 2>> IN
         IF crc[1] % 2 = 1
         THEN CrcShift(<<LimbXor(shifted[1], 33568), LimbXor(shifted[2], 60856)>>, j + 1)
         ELSE CrcShift(shifted, j + 1)

RECURSIVE CrcBytes(_, _, _)
CrcBytes(crc, name, i) ==
    IF i > Len(name) THEN crc
    ELSE CrcBytes(CrcShift(<<LimbXor(crc[1], name[i]), crc[2]>>, 0), name, i + 1)

\* hash_name: reflected CRC-32, polynomial 0xEDB88320, initial 0xFFFFFFFF,
\* final complement
Crc32(name) ==
    LET crc == CrcBytes(<<65535, 65535>>, name, 1) IN
    <<65535 - crc[1], 65535 - crc[2]>>

\* the hashes of the strings the scenarios use, computed once
HashedStrings ==
    {<<>>, <<97>>, <<98>>, <<99>>, <<53>>, <<195, 169>>, <<43, 53>>, <<48, 53>>,
     <<97, 58, 32, 98>>, <<52, 50, 57, 52, 57, 54, 55, 50, 57, 54>>}

HashMemo == [name \in HashedStrings |-> Crc32(name)]

hash_name(name) ==
    IF name \in HashedStrings THEN HashMemo[name] ELSE Crc32(name)

\* core::str::from_utf8 accepts exactly the well-formed byte sequences
Cont(b) == b >= 128 /\ b <= 191

\* (a run of ASCII bytes is passed over in one step)
RECURSIVE IsUtf8From(_, _)
IsUtf8From(s, from) ==
    LET i == CHOOSE j \in from..(Len(s) + 1) :
                 /\ j = Len(s) + 1 \/ s[j] > 127
                 /\ \A k \in from..(j - 1) : s[k] <= 127
    IN
    IF i > Len(s) THEN TRUE
    ELSE LET b == s[i]
             n == Len(s) - i
         IN
         IF b >= 194 /\ b <= 223
         THEN n >= 1 /\ Cont(s[i + 1]) /\ IsUtf8From(s, i + 2)
         ELSE IF b >= 224 /\ b <= 239
              THEN /\ n >= 2
                   /\ Cont(s[i + 1]) /\ Cont(s[i + 2])
                   /\ (b = 224 => s[i + 1] >= 160)
                   /\ (b = 237 => s[i + 1] <= 159)
                   /\ IsUtf8From(s, i + 3)
         ELSE IF b >= 240 /\ b <= 244
              THEN /\ n >= 3
                   /\ Cont(s[i + 1]) /\ Cont(s[i + 2]) /\ Cont(s[i + 3])
                   /\ (b = 240 => s[i + 1] >= 144)
                   /\ (b = 244 => s[i + 1] <= 143)
                   /\ IsUtf8From(s, i + 4)
         ELSE FALSE

IsUtf8(s) == IsUtf8From(s, 1)

\* <str as Ord>::cmp: lexicographic on the bytes
StrCmp(a, b) ==
    LET m == IF Len(a) < Len(b) THEN Len(a) ELSE Len(b)
        i == CHOOSE j \in 1..(m + 1) :
                 /\ j = m + 1 \/ a[j] # b[j]
                 /\ \A k \in 1..(j - 1) : a[k] = b[k]
    IN IF i <= m THEN (IF a[i] < b[i] THEN "Less" ELSE "Greater")
       ELSE IF Len(a) < Len(b) THEN "Less"
       ELSE IF Len(a) > Len(b) THEN "Greater"
       ELSE "Equal"

\* A Name is its field `inner`: a sequence of NAME_SIZE bytes.
Zeroed == [i \in 1..NAME_SIZE |-> 0]

\* the number of leading bytes of `value`, among the first NAME_SIZE, that
\* precede its first zero byte (the loop of Name::try_from)
CopyLen(value) ==
    LET limit == IF Len(value) < NAME_SIZE THEN Len(value) ELSE NAME_SIZE IN
    CHOOSE len \in 0..limit :
        /\ len = limit \/ value[len + 1] = 0
        /\ \A k \in 1..len : value[k] # 0

\* impl TryFrom<&[u8]> for Name
Name_try_from(value) ==
    LET len == CopyLen(value)
        inner == [i \in 1..NAME_SIZE |-> IF i <= len THEN value[i] ELSE 0]
    IN IF IsUtf8(SubSeq(inner, 1, len)) THEN Ok(inner) ELSE Err(Utf8Error)

\* Name::as_str searches the buffer for its first zero byte and unwraps the
\* position unchecked: with no zero byte in the buffer the behaviour is
\* undefined.
HasTerminator(name) == \E i \in 1..NAME_SIZE : name[i] = 0

Name_as_str(name) ==
    LET zero_idx == CHOOSE i \in 1..NAME_SIZE :
                        name[i] = 0 /\ \A k \in 1..(i - 1) : name[k] # 0
    IN
    SubSeq(name, 1, zero_idx - 1)

\* (mutant) the operands of the comparison exchanged
Name_cmp_reversed(a, b) == StrCmp(Name_as_str(b), Name_as_str(a))

\* impl Ord for Name, impl PartialEq for Name: on the logical strings
Name_cmp(a, b) == StrCmp(Name_as_str(a), Name_as_str(b))

\* ------------------------------------------------------------------------
\* alloc::collections::BTreeMap, as the crate uses it
\* ------------------------------------------------------------------------
\* A map is the sequence of its entries [key, value] in ascending key order.
\* `kind` names the key type: "u32" (crc_table) or "Name" (name_table).  A
\* lookup walks the keys of a node in order and compares the needle with each
\* (search_node), which for the maps modelled here (one leaf, at most 11
\* entries) is a scan from the first entry.

None == <<>>
Some(v) == <<v>>

\* the outcome of an operation whose behaviour is undefined
Undefined == [tag |-> "Undefined"]

\* Ord::cmp of the key type; comparing Names calls Name::as_str on both
KeyCmp(kind, a, b) ==
    IF kind = "u32" THEN WordCmp(a, b)
    ELSE IF HasTerminator(a) /\ HasTerminator(b) THEN Name_cmp(a, b)
    ELSE "Undefined"

RECURSIVE MapFindFrom(_, _, _, _)
MapFindFrom(kind, m, k, i) ==
    IF i > Len(m) THEN [tag |-> "Vacant", at |-> i]
    ELSE LET c == KeyCmp(kind, k, m[i].key) IN
         IF c = "Undefined" THEN Undefined
         ELSE IF c = "Greater" THEN MapFindFrom(kind, m, k, i + 1)
         ELSE IF c = "Equal" THEN [tag |-> "Occupied", at |-> i]
         ELSE [tag |-> "Vacant", at |-> i]

\* BTreeMap::entry
MapFind(kind, m, k) == MapFindFrom(kind, m, k, 1)

\* BTreeMap::get: Ok(Some(value)), Ok(None) or Undefined
MapGet(kind, m, k) ==
    LET e == MapFind(kind, m, k) IN
    IF e.tag = "Undefined" THEN Undefined
    ELSE IF e.tag = "Occupied" THEN Ok(Some(m[e.at].value))
    ELSE Ok(None)

\* (mutant) an occupied entry keeps its value
InsertAt_keeps_value(m, e, k, v) ==
    IF e.tag = "Occupied" THEN m
    ELSE SubSeq(m, 1, e.at - 1) \o <<[key |-> k, value |-> v]>> \o SubSeq(m, e.at, Len(m))

\* VacantEntry::insert / OccupiedEntry::insert at the place a lookup found
InsertAt(m, e, k, v) ==
    IF e.tag = "Occupied"
    THEN [m EXCEPT ![e.at].value = v]
    ELSE SubSeq(m, 1, e.at - 1) \o <<[key |-> k, value |-> v]>> \o SubSeq(m, e.at, Len(m))

\* BTreeMap::insert: the new map and the value replaced, if any
MapInsert(kind, m, k, v) ==
    LET e == MapFind(kind, m, k) IN
    IF e.tag = "Undefined" THEN Undefined
    ELSE [tag |-> "Ok",
          map |-> InsertAt(m, e, k, v),
          old |-> IF e.tag = "Occupied" THEN Some(m[e.at].value) ELSE None]

\* BTreeMap::remove: the new map and the value removed, if any
MapRemove(kind, m, k) ==
    LET e == MapFind(kind, m, k) IN
    IF e.tag = "Undefined" THEN Undefined
    ELSE IF e.tag = "Occupied"
    THEN [tag |-> "Ok",
          map |-> SubSeq(m, 1, e.at - 1) \o SubSeq(m, e.at + 1, Len(m)),
          old |-> Some(m[e.at].value)]
    ELSE [tag |-> "Ok", map |-> m, old |-> None]

MapKeys(m) == [i \in 1..Len(m) |-> m[i].key]

\* ------------------------------------------------------------------------
\* bin.rs: the binary layout
\* ------------------------------------------------------------------------

\* b"RESTBL"
MAGIC == <<82, 69, 83, 84, 66, 76>>

HEADER_FULL_SIZE == 22
HASH_ENTRY_SIZE == 8
NAME_ENTRY_SIZE == 164

\* the first error among the results of a struct literal's `?` fields, if any
FirstErr(results) ==
    LET bad == {i \in 1..Len(results) : results[i].tag # "Ok"} IN
    IF bad = {} THEN None ELSE Some(results[Min(bad)])

\* Header::read
Header_read(d) ==
    IF Len(d) < HEADER_FULL_SIZE
    THEN Err(InsufficientData(USize(Len(d)), "0x16 bytes for header"))
    ELSE IF SubSeq(d, 1, Len(MAGIC)) # MAGIC
    THEN Err(InvalidMagic(SubSeq(d, 1, Len(MAGIC))))
    ELSE LET rest == SubSeq(d, Len(MAGIC) + 1, HEADER_FULL_SIZE)
             f == <<read_u32(rest, 0), read_u32(rest, 4),
                    read_u32(rest, 8), read_u32(rest, 12)>>
         IN IF FirstErr(f) # None THEN FirstErr(f)[1]
            ELSE Ok([version |-> f[1].val,
                     string_block_size |-> f[2].val,
                     crc_table_count |-> f[3].val,
                     name_table_count |-> f[4].val])

\* Header::write: the magic, then the struct's bytes
Header_write(h) ==
    MAGIC \o U32Bytes(h.version) \o U32Bytes(h.string_block_size)
          \o U32Bytes(h.crc_table_count) \o U32Bytes(h.name_table_count)

\* HashEntry::read
HashEntry_read(buffer) ==
    IF Len(buffer) < HASH_ENTRY_SIZE
    THEN Err(InsufficientData(USize(Len(buffer)), "8 bytes for HashEntry"))
    ELSE LET f == <<read_u32(buffer, 0), read_u32(buffer, 4)>> IN
         IF FirstErr(f) # None THEN FirstErr(f)[1]
         ELSE Ok([hash |-> f[1].val, value |-> f[2].val])

\* (mutant) the two fields written in the other order
HashEntry_write_value_first(e) == U32Bytes(e.value) \o U32Bytes(e.hash)

\* HashEntry::write
HashEntry_write(e) == U32Bytes(e.hash) \o U32Bytes(e.value)

\* NameEntry::read
NameEntry_read(buffer) ==
    IF Len(buffer) < NAME_ENTRY_SIZE
    THEN Err(InsufficientData(USize(Len(buffer)), "0x4a bytes for NameEntry"))
    ELSE LET n == Name_try_from(SubSeq(buffer, 1, 160))
             v == read_u32(buffer, 160)
         IN IF FirstErr(<<n, v>>) # None THEN FirstErr(<<n, v>>)[1]
            ELSE Ok([name |-> n.val, value |-> v.val])

\* (mutant) the value written in front of the name
NameEntry_write_value_first(e) == U32Bytes(e.value) \o e.name

\* NameEntry::write
NameEntry_write(e) == e.name \o U32Bytes(e.value)

\* ------------------------------------------------------------------------
\* bin.rs: ResTblReader and its iterator
\* ------------------------------------------------------------------------
\* A reader is [data, header].  Slice lengths and indices that are known to
\* be small are kept as integers; the header's counts stay u32 words.

\* the value of a word that fits an integer of the model
WordToInt(w) == w[1] + Limb * w[2]

\* (mutant) the name table left out of the size
ExpectedSize_without_names(header) ==
    WordAdd(USize(HEADER_FULL_SIZE),
            WordMul(AsUsize(header.crc_table_count), HASH_ENTRY_SIZE))

\* the expected_size of ResTblReader::new, computed in usize
ExpectedSize(header) ==
    WordAdd(WordAdd(USize(HEADER_FULL_SIZE),
                    WordMul(AsUsize(header.crc_table_count), HASH_ENTRY_SIZE)),
            WordMul(AsUsize(header.name_table_count), NAME_ENTRY_SIZE))

\* ResTblReader::new.  `&data[..Header::FULL_SIZE]` is taken before
\* Header::read runs and panics on a shorter buffer.
ResTblReader_new(d) ==
    IF Len(d) < HEADER_FULL_SIZE
    THEN Panic("range end index 22 out of range for slice")
    ELSE LET header == Header_read(SubSeq(d, 1, HEADER_FULL_SIZE)) IN
         IF header.tag # "Ok" THEN header
         ELSE LET expected_size == ExpectedSize(header.val) IN
              IF WordLess(USize(Len(d)), expected_size)
              THEN Err(InvalidTableSize(USize(Len(d)), expected_size))
              ELSE Ok([data |-> d, header |-> header.val])

\* The builds of the crate: usize of 32 bits (2 limbs) or 64 bits (4 limbs),
\* arithmetic overflow checked (it panics) or wrapping.
Builds == [limbs : {2, USIZE_LIMBS}, overflow_checks : BOOLEAN]

\* expected_size of ResTblReader::new in the usize of the build.  The sum
\* is below 2^64 for any u32 counts, so ExpectedSize is its exact value.
ExpectedSizeOn(build, header) ==
    LET exact == ExpectedSize(header)
        fits == \A i \in (build.limbs + 1)..USIZE_LIMBS : exact[i] = 0
    IN IF ~fits /\ build.overflow_checks
       THEN Panic("attempt to multiply with overflow")
       ELSE Ok(SubSeq(exact, 1, build.limbs))

\* ResTblReader::new as the build compiles it
ResTblReader_new_on(build, d) ==
    IF Len(d) < HEADER_FULL_SIZE
    THEN Panic("range end index 22 out of range for slice")
    ELSE LET header == Header_read(SubSeq(d, 1, HEADER_FULL_SIZE)) IN
         IF header.tag # "Ok" THEN header
         ELSE LET expected_size == ExpectedSizeOn(build, header.val) IN
              IF expected_size.tag # "Ok" THEN expected_size
              ELSE IF WordLess(WordFromInt(Len(d), build.limbs), expected_size.val)
              THEN Err(InvalidTableSize(WordFromInt(Len(d), build.limbs),
                                        expected_size.val))
              ELSE Ok([data |-> d, header |-> header.val])

\* ResTblReader::name_table_offset
name_table_offset(tbl) ==
    HEADER_FULL_SIZE + WordToInt(tbl.header.crc_table_count) * HASH_ENTRY_SIZE

\* ResTblReader::hash_table_index: Some(index) if within the hash table
hash_table_index(tbl, index) ==
    IF WordLess(USize(index), AsUsize(tbl.header.crc_table_count))
    THEN Some(index) ELSE None

\* start..end of the hash record `index` lies inside the buffer, that is
\* 22 + 8 * index + 8 <= len (put so that a large index stays an integer of
\* the model)
HashEntryInBuffer(d, index) ==
    /\ Len(d) >= HEADER_FULL_SIZE + HASH_ENTRY_SIZE
    /\ index <= (Len(d) - HEADER_FULL_SIZE - HASH_ENTRY_SIZE) \div HASH_ENTRY_SIZE

\* ResTblReader::parse_hash_entry: an unchecked read of 8 bytes at
\* 22 + 8 * index, transmuted to a HashEntry
parse_hash_entry(tbl, index) ==
    LET start == HEADER_FULL_SIZE + index * HASH_ENTRY_SIZE
        end == start + HASH_ENTRY_SIZE
    IN IF ~HashEntryInBuffer(tbl.data, index) THEN Undefined
       ELSE Ok([hash |-> U32FromLeBytes(SubSeq(tbl.data, start + 1, start + 4)),
                value |-> U32FromLeBytes(SubSeq(tbl.data, start + 5, start + 8))])

\* ResTblReader::parse_name_entry: NameEntry::read of a checked slice
parse_name_entry(tbl, index) ==
    LET start == name_table_offset(tbl) + index * NAME_ENTRY_SIZE
        end == start + NAME_ENTRY_SIZE
    IN IF end > Len(tbl.data)
       THEN Panic("range end index out of range for slice")
       ELSE NameEntry_read(SubSeq(tbl.data, start + 1, end))

\* the loop of find_hash_entry from the bounds start, end on
RECURSIVE FindHash(_, _, _, _)
FindHash(tbl, hash, start, end) ==
    IF ~(start < end) THEN Ok(None)
    ELSE LET mid == (start + end) \div 2
             entry == parse_hash_entry(tbl, mid)
         IN IF entry.tag = "Undefined" THEN Undefined
            ELSE IF WordCmp(entry.val.hash, hash) = "Less"
            THEN FindHash(tbl, hash, mid + 1, end)
            ELSE IF WordCmp(entry.val.hash, hash) = "Greater"
            THEN FindHash(tbl, hash, start, mid)
            ELSE Ok(Some(entry.val))

\* ResTblReader::find_hash_entry
find_hash_entry(tbl, hash) ==
    FindHash(tbl, hash, 0, WordToInt(tbl.header.crc_table_count))

\* the loop of find_name_entry; a record that does not decode ends the
\* search with None, a Name without terminator is compared with undefined
\* behaviour
RECURSIVE FindName(_, _, _, _)
FindName(tbl, name, start, end) ==
    IF ~(start < end) THEN Ok(None)
    ELSE LET mid == (start + end) \div 2
             entry == parse_name_entry(tbl, mid)
         IN IF entry.tag = "Panic" THEN entry
            ELSE IF entry.tag # "Ok" THEN Ok(None)
            ELSE IF ~HasTerminator(entry.val.name) THEN Undefined
            ELSE IF StrCmp(Name_as_str(entry.val.name), name) = "Less"
            THEN FindName(tbl, name, mid + 1, end)
            ELSE IF StrCmp(Name_as_str(entry.val.name), name) = "Greater"
            THEN FindName(tbl, name, start, mid)
            ELSE Ok(Some(entry.val))

\* ResTblReader::find_name_entry
find_name_entry(tbl, name) ==
    FindName(tbl, name, 0, WordToInt(tbl.header.name_table_count))

\* Option<entry>::map(|e| e.value) under a result
MapValue(r) ==
    IF r.tag # "Ok" THEN r
    ELSE IF r.val = None THEN Ok(None) ELSE Ok(Some(r.val[1].value))

\* ResTblReader::get
ResTblReader_get(tbl, needle) ==
    IF needle.kind = "HashIndex"
    THEN MapValue(find_hash_entry(tbl, needle.hash))
    ELSE LET n == MapValue(find_name_entry(tbl, needle.name)) IN
         IF n.tag # "Ok" THEN n
         ELSE IF n.val # None THEN n
         ELSE MapValue(find_hash_entry(tbl, hash_name(needle.name)))

\* ResTblReader::contains
ResTblReader_contains(tbl, needle) ==
    IF needle.kind = "HashIndex"
    THEN LET h == find_hash_entry(tbl, needle.hash) IN
         IF h.tag # "Ok" THEN h ELSE Ok(h.val # None)
    ELSE LET n == MapValue(find_name_entry(tbl, needle.name)) IN
         IF n.tag # "Ok" THEN n
         ELSE IF n.val # None THEN Ok(TRUE)
         ELSE LET h == MapValue(find_hash_entry(tbl, hash_name(needle.name))) IN
              IF h.tag # "Ok" THEN h ELSE Ok(h.val # None)

\* ResTblIterator::next on the iterator [table, index]: the item (None, or
\* Some of a TableEntry) and the iterator's index afterwards
ResTblIterator_next(tbl, index) ==
    IF hash_table_index(tbl, index) # None
    THEN LET entry == parse_hash_entry(tbl, hash_table_index(tbl, index)[1]) IN
         IF entry.tag = "Undefined" THEN Undefined
         ELSE [tag |-> "Ok",
               item |-> Some([kind |-> "Hash", hash |-> entry.val.hash,
                              value |-> entry.val.value]),
               index |-> index + 1]
    ELSE LET start == name_table_offset(tbl)
                      + (index - WordToInt(tbl.header.crc_table_count)) * NAME_ENTRY_SIZE
             end == start + NAME_ENTRY_SIZE
         IN IF end > Len(tbl.data)
            THEN [tag |-> "Ok", item |-> None, index |-> index]
            ELSE LET entry == NameEntry_read(SubSeq(tbl.data, start + 1, end)) IN
                 [tag |-> "Ok",
                  item |-> IF entry.tag = "Ok"
                           THEN Some([kind |-> "Name", name |-> entry.val.name,
                                      value |-> entry.val.value])
                           ELSE None,
                  index |-> index + 1]

\* ------------------------------------------------------------------------
\* The owned table: construction and encoding
\* ------------------------------------------------------------------------
\* A ResourceSizeTable is [crc_table, name_table], two maps.

\* ResourceSizeTable::new
EmptyTable == [crc_table |-> <<>>, name_table |-> <<>>]

\* `for entry in parser.iter() { insert }`: the loop ends at the first None
RECURSIVE CollectEntries(_, _, _)
CollectEntries(parser, index, tbl) ==
    LET n == ResTblIterator_next(parser, index) IN
    IF n.tag = "Undefined" THEN Undefined
    ELSE IF n.item = None THEN Ok(tbl)
    ELSE LET entry == n.item[1] IN
         IF entry.kind = "Hash"
         THEN LET ins == MapInsert("u32", tbl.crc_table, entry.hash, entry.value) IN
              CollectEntries(parser, n.index, [tbl EXCEPT !.crc_table = ins.map])
         ELSE LET ins == MapInsert("Name", tbl.name_table, entry.name, entry.value) IN
              IF ins.tag = "Undefined" THEN Undefined
              ELSE CollectEntries(parser, n.index, [tbl EXCEPT !.name_table = ins.map])

\* ResourceSizeTable::from_parser
from_parser(parser) == CollectEntries(parser, 0, EmptyTable)

\* ResourceSizeTable::from_binary
from_binary(d) ==
    LET parser == ResTblReader_new(d) IN
    IF parser.tag # "Ok" THEN parser
    ELSE CollectEntries(parser.val, 0, EmptyTable)

RECURSIVE Concat(_)
Concat(parts) == IF Len(parts) = 0 THEN <<>> ELSE Head(parts) \o Concat(Tail(parts))

\* ResourceSizeTable::to_binary
to_binary(tbl) ==
    Header_write([version |-> U32(1),
                  string_block_size |-> U32(NAME_SIZE),
                  crc_table_count |-> U32(Len(tbl.crc_table)),
                  name_table_count |-> U32(Len(tbl.name_table))])
    \o Concat([i \in 1..Len(tbl.crc_table) |->
                 HashEntry_write([hash |-> tbl.crc_table[i].key,
                                  value |-> tbl.crc_table[i].value])])
    \o Concat([i \in 1..Len(tbl.name_table) |->
                 NameEntry_write([name |-> tbl.name_table[i].key,
                                  value |-> tbl.name_table[i].value])])

\* ------------------------------------------------------------------------
\* lib.rs: lookups and updates of the owned table
\* ------------------------------------------------------------------------
\* A TableIndex is a raw hash or a resource path.

HashIndex(h) == [kind |-> "HashIndex", hash |-> h]
StringIndex(s) == [kind |-> "StringIndex", name |-> s]

\* impl From<&str> for Name.  lib.rs and text.rs call it; its code is not
\* among the crate's files here.  After the data model of the format: the
\* string left-aligned in a zeroed buffer, at most 159 bytes of it, so that a
\* terminator remains.
Name_from_str(value) ==
    [i \in 1..NAME_SIZE |-> IF i <= Len(value) /\ i < NAME_SIZE THEN value[i] ELSE 0]

\* ResourceSizeTable::contains: Ok(TRUE), Ok(FALSE) or Undefined
contains(tbl, needle) ==
    IF needle.kind = "HashIndex"
    THEN Ok(MapGet("u32", tbl.crc_table, needle.hash).val # None)
    ELSE LET n == MapGet("Name", tbl.name_table, Name_from_str(needle.name)) IN
         IF n.tag = "Undefined" THEN Undefined
         ELSE Ok(n.val # None
                 \/ MapGet("u32", tbl.crc_table, hash_name(needle.name)).val # None)

\* (mutant) the hash sub-table consulted before the name sub-table
get_hash_first(tbl, needle) ==
    IF needle.kind = "HashIndex"
    THEN MapGet("u32", tbl.crc_table, needle.hash)
    ELSE LET h == MapGet("u32", tbl.crc_table, hash_name(needle.name)) IN
         IF h.val # None THEN h
         ELSE MapGet("Name", tbl.name_table, Name_from_str(needle.name))

\* ResourceSizeTable::get: Ok(Some(value)), Ok(None) or Undefined
get(tbl, needle) ==
    IF needle.kind = "HashIndex"
    THEN MapGet("u32", tbl.crc_table, needle.hash)
    ELSE LET n == MapGet("Name", tbl.name_table, Name_from_str(needle.name)) IN
         IF n.tag = "Undefined" THEN Undefined
         ELSE IF n.val # None THEN n
         ELSE MapGet("u32", tbl.crc_table, hash_name(needle.name))

\* (mutant) a path is always stored under its hash
set_always_hashed(tbl, res, value) ==
    LET ins == MapInsert("u32", tbl.crc_table,
                         IF res.kind = "HashIndex" THEN res.hash ELSE hash_name(res.name),
                         value)
    IN [tag |-> "Ok", table |-> [tbl EXCEPT !.crc_table = ins.map], ret |-> ins.old]

\* ResourceSizeTable::set: the table afterwards and the value returned
set(tbl, res, value) ==
    IF res.kind = "HashIndex"
    THEN LET ins == MapInsert("u32", tbl.crc_table, res.hash, value) IN
         [tag |-> "Ok", table |-> [tbl EXCEPT !.crc_table = ins.map], ret |-> ins.old]
    ELSE LET key == Name_from_str(res.name)
             e == MapFind("Name", tbl.name_table, key)
         IN
         IF e.tag = "Undefined" THEN Undefined
         ELSE IF e.tag = "Occupied"
         THEN [tag |-> "Ok",
               table |-> [tbl EXCEPT !.name_table = InsertAt(tbl.name_table, e, key, value)],
               ret |-> Some(tbl.name_table[e.at].value)]
         ELSE LET ins == MapInsert("u32", tbl.crc_table, hash_name(res.name), value) IN
              [tag |-> "Ok", table |-> [tbl EXCEPT !.crc_table = ins.map], ret |-> ins.old]

\* (mutant) a path is removed from the name sub-table only
remove_without_fallback(tbl, res) ==
    IF res.kind = "HashIndex"
    THEN LET rem == MapRemove("u32", tbl.crc_table, res.hash) IN
         [tag |-> "Ok", table |-> [tbl EXCEPT !.crc_table = rem.map], ret |-> rem.old]
    ELSE LET named == MapRemove("Name", tbl.name_table, Name_from_str(res.name)) IN
         [tag |-> "Ok", table |-> [tbl EXCEPT !.name_table = named.map],
          ret |-> named.old]

\* ResourceSizeTable::remove: the table afterwards and the value returned
remove(tbl, res) ==
    IF res.kind = "HashIndex"
    THEN LET rem == MapRemove("u32", tbl.crc_table, res.hash) IN
         [tag |-> "Ok", table |-> [tbl EXCEPT !.crc_table = rem.map], ret |-> rem.old]
    ELSE LET named == MapRemove("Name", tbl.name_table, Name_from_str(res.name)) IN
         IF named.tag = "Undefined" THEN Undefined
         ELSE IF named.old # None
         THEN [tag |-> "Ok", table |-> [tbl EXCEPT !.name_table = named.map],
               ret |-> named.old]
         ELSE LET rem == MapRemove("u32", tbl.crc_table, hash_name(res.name)) IN
              [tag |-> "Ok", table |-> [tbl EXCEPT !.crc_table = rem.map], ret |-> rem.old]

\* ResourceSizeTable::extend: set(k, v) for each item of the iterator
RECURSIVE extend(_, _)
extend(tbl, items) ==
    IF Len(items) = 0 THEN [tag |-> "Ok", table |-> tbl, ret |-> None]
    ELSE LET r == set(tbl, items[1].key, items[1].value) IN
         IF r.tag = "Undefined" THEN Undefined
         ELSE extend(r.table, Tail(items))

\* ------------------------------------------------------------------------
\* text.rs: the text form of the owned table
\* ------------------------------------------------------------------------
\* A text is the sequence of its bytes.

YamlError(line) == [kind |-> "YamlError", line |-> line]
YamlInvalidNumber(kind) == [kind |-> "YamlInvalidNumber", error |-> kind]

\* one step of the decimal expansion of a u32: quotient and remainder by ten
DivTen(w) ==
    LET mid == (w[2] % 10) * Limb + w[1] IN
    [q |-> <<mid \div 10, w[2] \div 10>>, r |-> mid % 10]

\* `{k}` / `{v}` of a u32: its decimal digits, most significant first
RECURSIVE U32_fmt(_)
U32_fmt(w) ==
    LET d == DivTen(w) IN
    IF d.q = <<0, 0>> THEN <<48 + d.r>> ELSE U32_fmt(d.q) \o <<48 + d.r>>

\* `{k}` of a Name: Display writes Name::as_str
Name_fmt(name) == Name_as_str(name)

\* the digits of str::parse::<u32>, accumulated left to right with checked
\* multiplication and addition
RECURSIVE ParseDigits(_, _, _)
ParseDigits(s, i, acc) ==
    IF i > Len(s) THEN Ok(acc)
    ELSE IF s[i] < 48 \/ s[i] > 57 THEN Err("InvalidDigit")
    ELSE LET lo == acc[1] * 10 + (s[i] - 48)
             hi == acc[2] * 10 + (lo \div Limb)
         IN IF hi >= Limb THEN Err("PosOverflow")
            ELSE ParseDigits(s, i + 1, <<lo % Limb, hi>>)

\* str::parse::<u32>: an optional "+", then at least one decimal digit
parse_u32(s) ==
    IF Len(s) = 0 THEN Err("Empty")
    ELSE IF Len(s) = 1 /\ s[1] \in {43, 45} THEN Err("InvalidDigit")
    ELSE ParseDigits(IF s[1] = 43 THEN Tail(s) ELSE s, 1, <<0, 0>>)

\* text.lines(): the pieces between line feeds, a carriage return before a
\* line feed dropped with it; nothing follows a final line feed
RECURSIVE str_lines(_)
str_lines(t) ==
    IF Len(t) = 0 THEN <<>>
    ELSE IF \A i \in 1..Len(t) : t[i] # 10 THEN <<t>>
    ELSE LET nl == CHOOSE i \in 1..Len(t) :
                       t[i] = 10 /\ \A k \in 1..(i - 1) : t[k] # 10
             cut == IF nl > 1 /\ t[nl - 1] = 13 THEN nl - 2 ELSE nl - 1
         IN <<SubSeq(t, 1, cut)>> \o str_lines(SubSeq(t, nl + 1, Len(t)))

\* the place of the first ": " of `s` at or after `from`, 0 when there is none
FindSeparator(s, from) ==
    IF \E i \in from..(Len(s) - 1) : s[i] = 58 /\ s[i + 1] = 32
    THEN CHOOSE i \in from..(Len(s) - 1) :
             /\ s[i] = 58 /\ s[i + 1] = 32
             /\ \A k \in from..(i - 1) : ~(s[k] = 58 /\ s[k + 1] = 32)
    ELSE 0

\* line.split(": "): its first item, which always exists
SplitFirst(line) ==
    LET p == FindSeparator(line, 1) IN
    IF p = 0 THEN line ELSE SubSeq(line, 1, p - 1)

\* line.split(": "): its second item, if there is one
SplitSecond(line) ==
    LET p == FindSeparator(line, 1) IN
    IF p = 0 THEN None
    ELSE LET q == FindSeparator(line, p + 2) IN
         Some(SubSeq(line, p + 2, IF q = 0 THEN Len(line) ELSE q - 1))

\* the lines to_text writes for the hash sub-table and for the name sub-table
HashLines(tbl) ==
    Concat([i \in 1..Len(tbl.crc_table) |->
              U32_fmt(tbl.crc_table[i].key) \o <<58, 32>>
              \o U32_fmt(tbl.crc_table[i].value) \o <<10>>])
NameLines(tbl) ==
    Concat([i \in 1..Len(tbl.name_table) |->
              Name_fmt(tbl.name_table[i].key) \o <<58, 32>>
              \o U32_fmt(tbl.name_table[i].value) \o <<10>>])

\* ResourceSizeTable::to_text
to_text(tbl) == HashLines(tbl) \o NameLines(tbl)

\* <u32 as lexical_core::FormattedSize>::FORMATTED_SIZE: the digits of
\* u32::MAX
FORMATTED_SIZE == 10

\* buffer[pos..pos + bytes.len()].copy_from_slice(bytes): the buffer and the
\* position after it; the slice index panics when it leaves the buffer
copy_from_slice(buffer, pos, bytes) ==
    IF pos + Len(bytes) > Len(buffer)
    THEN Panic("range end index out of range for slice")
    ELSE Ok([buffer |-> [i \in 1..Len(buffer) |->
                            IF i > pos /\ i <= pos + Len(bytes)
                            THEN bytes[i - pos] ELSE buffer[i]],
             pos |-> pos + Len(bytes)])

\* pos += lexical_core::write(n, &mut buffer[pos..]).len(): the decimal
\* digits of n; lexical_core panics unless FORMATTED_SIZE bytes remain
lexical_write(n, buffer, pos) ==
    IF pos > Len(buffer)
    THEN Panic("range start index out of range for slice")
    ELSE IF Len(buffer) - pos < FORMATTED_SIZE
    THEN Panic("Buffer is too small: may overwrite buffer, panicking!")
    ELSE copy_from_slice(buffer, pos, U32_fmt(n))

\* the writes of one entry, in order: <<"number", n>> or <<"bytes", b>>
EntryWrites(entry) ==
    IF entry.kind = "Hash"
    THEN << <<"number", entry.hash>>, <<"bytes", <<58, 32>> >>,
            <<"number", entry.value>>, <<"bytes", <<10>> >> >>
    ELSE << <<"bytes", Name_as_str(entry.name)>>, <<"bytes", <<58, 32>> >>,
            <<"number", entry.value>>, <<"bytes", <<10>> >> >>

RECURSIVE WriteAll(_, _, _)
WriteAll(writes, buffer, pos) ==
    IF Len(writes) = 0 THEN Ok([buffer |-> buffer, pos |-> pos])
    ELSE LET w == Head(writes)
             r == IF w[1] = "number" THEN lexical_write(w[2], buffer, pos)
                  ELSE copy_from_slice(buffer, pos, w[2])
         IN IF r.tag # "Ok" THEN r
            ELSE WriteAll(Tail(writes), r.val.buffer, r.val.pos)

\* ResTblReader::write_text_to_buf_unchecked from the iterator's index on:
\* Ok of the buffer and the position reached, a panic, or undefined (a Name
\* without terminator is measured)
RECURSIVE write_text_to_buf_unchecked(_, _, _, _)
write_text_to_buf_unchecked(tbl, index, buffer, pos) ==
    LET n == ResTblIterator_next(tbl, index) IN
    IF n.tag = "Undefined" THEN Undefined
    ELSE IF n.item = None THEN Ok([buffer |-> buffer, pos |-> pos])
    ELSE IF n.item[1].kind = "Name" /\ ~HasTerminator(n.item[1].name) THEN Undefined
    ELSE LET r == WriteAll(EntryWrites(n.item[1]), buffer, pos) IN
         IF r.tag # "Ok" THEN r
         ELSE write_text_to_buf_unchecked(tbl, n.index, r.val.buffer, r.val.pos)

\* min_size of write_text_to_buf; the counts of an accepted buffer are small
MinTextSize(tbl) ==
    WordToInt(tbl.header.crc_table_count) * (FORMATTED_SIZE * 2 + 3)
    + WordToInt(tbl.header.name_table_count) * (160 + FORMATTED_SIZE + 3)

\* ResTblReader::write_text_to_buf
write_text_to_buf(tbl, buffer) ==
    LET min_size == MinTextSize(tbl) IN
    IF Len(buffer) < min_size
    THEN Err(InsufficientBuffer(USize(Len(buffer)), USize(min_size)))
    ELSE write_text_to_buf_unchecked(tbl, 0, buffer, 0)

\* (mutant) a hash the table holds keeps its value
from_text_hash_keeps_first(tbl, hash, value) ==
    IF MapGet("u32", tbl.crc_table, hash).val # None THEN Ok(tbl)
    ELSE Ok([tbl EXCEPT !.crc_table = MapInsert("u32", tbl.crc_table, hash, value).map])

\* from_text, the arm `Ok(hash)`: the key of the line is a decimal u32
from_text_hash(tbl, hash, value) ==
    Ok([tbl EXCEPT !.crc_table = MapInsert("u32", tbl.crc_table, hash, value).map])

\* (mutant) the hash of the key always takes the value
from_text_name_always_hashed(tbl, key, value) ==
    Ok([tbl EXCEPT !.crc_table =
                      MapInsert("u32", tbl.crc_table, hash_name(key), value).map])

\* from_text, the arm `Err(_)`: the key of the line is not a decimal u32
from_text_name(tbl, key, value) ==
    LET hash == hash_name(key)
        entry == MapFind("u32", tbl.crc_table, hash)
    IN
    IF entry.tag = "Occupied"
    THEN LET ins == MapInsert("Name", tbl.name_table, Name_from_str(key), value) IN
         IF ins.tag = "Undefined" THEN Undefined
         ELSE Ok([tbl EXCEPT !.name_table = ins.map])
    ELSE Ok([tbl EXCEPT !.crc_table = InsertAt(tbl.crc_table, entry, hash, value)])

\* from_text: the body of its loop, for one line
from_text_line(tbl, line) ==
    LET key == SplitFirst(line)
        second == SplitSecond(line)
    IN
    IF second = None THEN Err(YamlError(line))
    ELSE LET value == parse_u32(second[1]) IN
         IF value.tag # "Ok" THEN Err(YamlInvalidNumber(value.err))
         ELSE LET hash == parse_u32(key) IN
              IF hash.tag = "Ok" THEN from_text_hash(tbl, hash.val, value.val)
              ELSE from_text_name(tbl, key, value.val)

RECURSIVE from_text_lines(_, _)
from_text_lines(tbl, ls) ==
    IF Len(ls) = 0 THEN Ok(tbl)
    ELSE LET r == from_text_line(tbl, Head(ls)) IN
         IF r.tag # "Ok" THEN r ELSE from_text_lines(r.val, Tail(ls))

\* ResourceSizeTable::from_text
from_text(t) == from_text_lines(EmptyTable, str_lines(t))

\* ------------------------------------------------------------------------
\* Inputs
\* ------------------------------------------------------------------------

MaxHashRecs == 2
MaxNameRecs == 2

SeqsUpTo(S, n) == UNION {[1..k -> S] : k \in 0..n}

\* `s` left-aligned in a zeroed 160-byte field
Pad(s) == [i \in 1..160 |-> IF i <= Len(s) THEN s[i] ELSE 0]

\* "a", "b", "5" and the two-byte character U+00E9
StrA == <<97>>
StrB == <<98>>
StrC == <<99>>
Str5 == <<53>>
StrE == <<195, 169>>

U32Max == <<65535, 65535>>

\* hash records of input files: a small hash, one whose low limb is smaller
\* but whose value is larger, a hash with the top bit set, a repeated hash
InputHashRecs ==
    { [hash |-> U32(5), value |-> U32(1)],
      [hash |-> <<0, 1>>, value |-> U32(2)],
      [hash |-> hash_name(StrA), value |-> U32(1)],
      [hash |-> U32(5), value |-> U32Max] }

\* name fields of input files: well-formed ones, one with bytes after the
\* terminator, one that is not UTF-8, one with no terminator
FieldDirty == [Pad(StrA) EXCEPT ![3] = 120]
FieldBadUtf8 == Pad(<<255>>)
FieldFull == [i \in 1..160 |-> 97]

InputNameFields == {Pad(StrA), Pad(StrE), FieldDirty, FieldBadUtf8, FieldFull}

InputNameRecs == {[name |-> f, value |-> U32(3)] : f \in InputNameFields}

Shapes == {"honest", "version", "block_size", "magic", "crc_more", "name_more",
           "crc_huge", "extra_byte", "extra_record", "short", "cut21", "empty"}

\* little-endian bytes of a u32 word, for building input files
LeBytes(w) == <<w[1] % 256, w[1] \div 256, w[2] % 256, w[2] \div 256>>

\* the bytes of a file of the given shape holding the given records
BuildFile(shape, hs, ns) ==
    LET version == IF shape = "version" THEN U32(2) ELSE U32(1)
        string_block_size == IF shape = "block_size" THEN U32(0) ELSE U32(160)
        crc_table_count == IF shape = "crc_more" THEN U32(Len(hs) + 1)
                           ELSE IF shape = "crc_huge" THEN <<0, 8192>>
                           ELSE U32(Len(hs))
        name_table_count == IF shape = "name_more" THEN U32(Len(ns) + 1)
                            ELSE U32(Len(ns))
        magic == IF shape = "magic" THEN <<82, 69, 83, 84, 66, 88>>
                 ELSE <<82, 69, 83, 84, 66, 76>>
        body == magic \o LeBytes(version) \o LeBytes(string_block_size)
                \o LeBytes(crc_table_count) \o LeBytes(name_table_count)
                \o Concat([i \in 1..Len(hs) |-> LeBytes(hs[i].hash) \o LeBytes(hs[i].value)])
                \o Concat([i \in 1..Len(ns) |-> ns[i].name \o LeBytes(ns[i].value)])
    IN IF shape = "extra_byte" THEN body \o <<0>>
       ELSE IF shape = "extra_record" THEN body \o Pad(StrB) \o LeBytes(U32(4))
       ELSE IF shape = "short" THEN SubSeq(body, 1, Len(body) - 1)
       ELSE IF shape = "cut21" THEN SubSeq(body, 1, 21)
       ELSE IF shape = "empty" THEN <<>>
       ELSE body

\* files of the honest shape with every choice of records, and every other
\* shape around at most one record of each kind
InputBuffers ==
    { BuildFile("honest", hs, ns) :
        hs \in SeqsUpTo(InputHashRecs, MaxHashRecs),
        ns \in SeqsUpTo(InputNameRecs, MaxNameRecs) }
    \cup
    { BuildFile(shape, hs, ns) :
        shape \in Shapes,
        hs \in SeqsUpTo(InputHashRecs, 1),
        ns \in SeqsUpTo(InputNameRecs, 1) }

\* no table: a construction that failed or has not run
NoTable == [crc_table |-> <<>>, name_table |-> <<>>, none |-> TRUE]

\* ------------------------------------------------------------------------
\* SpecBin: a buffer is parsed and encoded again
\* ------------------------------------------------------------------------

InitBin ==
    /\ data \in InputBuffers
    /\ text = <<>>
    /\ lines = <<>>
    /\ table = NoTable
    /\ prev = NoTable
    /\ call = [op |-> "none"]
    /\ pc = "input"

\* ResTblReader::new(data)
ReaderNew ==
    /\ pc = "input"
    /\ call' = [op |-> "ResTblReader::new", ret |-> ResTblReader_new(data)]
    /\ pc' = "reader"
    /\ UNCHANGED <<data, text, lines, table, prev>>

\* ResourceSizeTable::from_binary(data).  Where the call compares a Name
\* that has no terminator its behaviour is undefined: it may not return, or
\* return any table.
FromBinary ==
    /\ pc = "input"
    /\ LET r == from_binary(data) IN
       /\ call' = [op |-> "from_binary", ret |-> r]
       /\ IF r.tag = "Ok" THEN table' = r.val
          ELSE IF r.tag = "Undefined" THEN table' \in {NoTable, EmptyTable}
          ELSE table' = NoTable
    /\ pc' = "table"
    /\ UNCHANGED <<data, text, lines, prev>>

\* table.to_binary() on the table from_binary returned
ToBinary ==
    /\ pc = "table"
    /\ call.ret.tag = "Ok"
    /\ call' = [op |-> "to_binary", ret |-> to_binary(table)]
    /\ pc' = "bytes"
    /\ UNCHANGED <<data, text, lines, table, prev>>

NextBin == ReaderNew \/ FromBinary \/ ToBinary

SpecBin == InitBin /\ [][NextBin]_vars

\* ---- what a file holds, read off its bytes

\* the u32 at byte offset `at` of a buffer, as an integer (small values only)
FileCount(d, at) == d[at + 1] + 256 * d[at + 2] + 65536 * d[at + 3]

FileCrcCount(d) == FileCount(d, 14)
FileNameCount(d) == FileCount(d, 18)

FileHash(d, i) ==
    LET at == 22 + 8 * (i - 1) IN
    <<d[at + 1] + 256 * d[at + 2], d[at + 3] + 256 * d[at + 4]>>

FileNameField(d, i) ==
    LET at == 22 + 8 * FileCrcCount(d) + 164 * (i - 1) IN
    [j \in 1..160 |-> d[at + j]]

\* the logical string of a raw name field: the bytes before its first zero
LogicalString(f) ==
    SubSeq(f, 1, (CHOOSE j \in 1..161 :
                     (j = 161 \/ f[j] = 0) /\ \A k \in 1..(j - 1) : f[k] # 0) - 1)

\* the file's hash records are strictly ascending by hash and its name
\* records strictly ascending by logical string
FileSorted(d) ==
    /\ \A i \in 1..(FileCrcCount(d) - 1) :
          WordCmp(FileHash(d, i), FileHash(d, i + 1)) = "Less"
    /\ \A i \in 1..(FileNameCount(d) - 1) :
          StrCmp(LogicalString(FileNameField(d, i)),
                 LogicalString(FileNameField(d, i + 1))) = "Less"

\* the file is exactly what to_binary lays out: version 1, block size 160,
\* no byte after the last record, and every name field a UTF-8 string, a
\* zero terminator and zero padding
FileCanonical(d) ==
    /\ FileCount(d, 6) = 1 /\ d[10] = 0
    /\ FileCount(d, 10) = 160 /\ d[14] = 0
    /\ Len(d) = 22 + 8 * FileCrcCount(d) + 164 * FileNameCount(d)
    /\ \A i \in 1..FileNameCount(d) :
          LET f == FileNameField(d, i) IN
          /\ Len(LogicalString(f)) < 160
          /\ IsUtf8(LogicalString(f))
          /\ \A j \in (Len(LogicalString(f)) + 1)..160 : f[j] = 0

\* C1 (as stated): whenever from_binary accepts a buffer whose hash records
\* are strictly ascending by hash and whose name records are strictly
\* ascending by logical string, to_binary of the table is that buffer.
C1_RoundTripOfSortedFile ==
    (pc = "bytes" /\ FileSorted(data)) => call.ret = data

\* C1 (amended): the round trip is byte-exact for the accepted, sorted
\* buffers that are in to_binary's own layout (version 1, block size 160,
\* exact length, name fields terminated, UTF-8 and zero-padded).
C1_RoundTripOfCanonicalFile ==
    (pc = "bytes" /\ FileSorted(data) /\ FileCanonical(data)) => call.ret = data

C1_Witness ==
    /\ pc = "bytes" /\ FileSorted(data) /\ FileCanonical(data)
    /\ FileCrcCount(data) = 2 /\ FileNameCount(data) = 2
    /\ call.ret = data

\* C5: ResTblReader::new on a buffer shorter than 22 bytes returns the
\* error InsufficientData (and does not panic).
C5_ShortBufferIsInsufficientData ==
    (call.op = "ResTblReader::new" /\ Len(data) < 22)
        => (call.ret.tag = "Err" /\ call.ret.err.kind = "InsufficientData")

\* C6: on a buffer of at least 22 bytes ResTblReader::new returns
\* InvalidMagic iff the first 6 bytes are not "RESTBL"; otherwise
\* InvalidTableSize(actual, expected) iff the buffer is shorter than
\* 22 + 8 * crc_table_count + 164 * name_table_count; otherwise a reader.
\* (The buffers of the model are shorter than 2^16 bytes, so a count with a
\* non-zero byte above the low two is too large whatever the rest.)
CountTooLarge(d, at) == d[at + 3] # 0 \/ d[at + 4] # 0

FileTooShort(d) ==
    \/ CountTooLarge(d, 14)
    \/ CountTooLarge(d, 18)
    \/ Len(d) < 22 + 8 * (d[15] + 256 * d[16]) + 164 * (d[19] + 256 * d[20])

MaxExtend == 2

\* the files the tables start from: well-formed ones, sorted or not
TableHashRecs ==
    { [hash |-> U32(5), value |-> U32(1)],
      [hash |-> hash_name(StrA), value |-> U32(2)],
      [hash |-> hash_name(StrB), value |-> U32(1)] }

TableNameRecs ==
    { [name |-> Pad(StrE), value |-> U32(1)],
      [name |-> Pad(StrA), value |-> U32(2)],
      [name |-> FieldDirty, value |-> U32(1)] }

TableFiles ==
    { BuildFile("honest", hs, ns) :
        hs \in SeqsUpTo(TableHashRecs, MaxHashRecs),
        ns \in SeqsUpTo(TableNameRecs, MaxNameRecs) }

\* the keys and values of the calls: raw hashes (one of them the hash of a
\* path) and paths (one that files name, one that none does)
Keys ==
    { HashIndex(U32(5)), HashIndex(hash_name(StrA)),
      StringIndex(StrA), StringIndex(StrB) }

Values == {U32(1), U32(2)}

ExtendItems ==
    { [key |-> StringIndex(StrA), value |-> U32(1)],
      [key |-> StringIndex(StrB), value |-> U32(2)],
      [key |-> HashIndex(hash_name(StrB)), value |-> U32(1)] }

\* the empty table (the file without records) or from_binary of a file
InitTable ==
    /\ \E file \in TableFiles :
          /\ from_binary(file).tag = "Ok"
          /\ table = from_binary(file).val
    /\ data = <<>>
    /\ prev = table
    /\ text = <<>>
    /\ lines = <<>>
    /\ call = [op |-> "from_binary"]
    /\ pc = "table"

\* an operation whose behaviour is undefined may leave any table behind
Outcome(r) ==
    IF r.tag = "Undefined" THEN table' \in {table, EmptyTable} ELSE table' = r.table

Get ==
    \E k \in Keys :
        /\ call' = [op |-> "get", key |-> k, ret |-> get(table, k)]
        /\ prev' = table
        /\ UNCHANGED <<data, text, lines, table, pc>>

Contains ==
    \E k \in Keys :
        /\ call' = [op |-> "contains", key |-> k, ret |-> contains(table, k)]
        /\ prev' = table
        /\ UNCHANGED <<data, text, lines, table, pc>>

Set ==
    \E k \in Keys, v \in Values :
        LET r == set(table, k, v) IN
        /\ call' = [op |-> "set", key |-> k, value |-> v,
                    ret |-> IF r.tag = "Ok" THEN Ok(r.ret) ELSE r]
        /\ prev' = table
        /\ Outcome(r)
        /\ UNCHANGED <<data, text, lines, pc>>

Remove ==
    \E k \in Keys :
        LET r == remove(table, k) IN
        /\ call' = [op |-> "remove", key |-> k,
                    ret |-> IF r.tag = "Ok" THEN Ok(r.ret) ELSE r]
        /\ prev' = table
        /\ Outcome(r)
        /\ UNCHANGED <<data, text, lines, pc>>

Extend ==
    \E items \in SeqsUpTo(ExtendItems, MaxExtend) :
        LET r == extend(table, items) IN
        /\ call' = [op |-> "extend", items |-> items,
                    ret |-> IF r.tag = "Ok" THEN Ok(r.ret) ELSE r]
        /\ prev' = table
        /\ Outcome(r)
        /\ UNCHANGED <<data, text, lines, pc>>

NextTable == Get \/ Contains \/ Set \/ Remove \/ Extend

SpecTable == InitTable /\ [][NextTable]_vars

\* ---- what a table holds, as sets

\* the values the name sub-table holds for the path, the values the hash
\* sub-table holds for the hash
NamedValues(t, path) ==
    {t.name_table[i].value : i \in {j \in 1..Len(t.name_table) :
                                      Name_as_str(t.name_table[j].key) = path}}
HashedValues(t, hash) ==
    {t.crc_table[i].value : i \in {j \in 1..Len(t.crc_table) :
                                     t.crc_table[j].key = hash}}

Entries(m) == {<<m[i].key, m[i].value>> : i \in 1..Len(m)}
EntryKeys(m) == {m[i].key : i \in 1..Len(m)}

\* the hash a key resolves to in the hash sub-table
HashOf(key) == IF key.kind = "HashIndex" THEN key.hash ELSE hash_name(key.name)

\* the key is a path that the name sub-table of t holds
IsNamed(t, key) == key.kind = "StringIndex" /\ NamedValues(t, key.name) # {}

\* C2: get(P) for a path P is the name sub-table's value of P when it has
\* one (whatever the hash sub-table holds under hash(P)), otherwise the hash
\* sub-table's value under hash(P), otherwise None; get(H) for a raw hash H
\* is the hash sub-table's value under H or None.
C2_NameFirstHashFallback ==
    call.op = "get" =>
        IF IsNamed(table, call.key)
        THEN \E v \in NamedValues(table, call.key.name) : call.ret = Ok(<<v>>)
        ELSE IF HashedValues(table, HashOf(call.key)) # {}
        THEN \E v \in HashedValues(table, HashOf(call.key)) : call.ret = Ok(<<v>>)
        ELSE call.ret = Ok(<<>>)

\* a path held by both sub-tables with different values: the name's wins
C2_Witness ==
    /\ call.op = "get"
    /\ IsNamed(table, call.key)
    /\ HashedValues(table, HashOf(call.key)) # {}
    /\ HashedValues(table, HashOf(call.key)) # NamedValues(table, call.key.name)
    /\ call.ret.tag = "Ok" /\ call.ret.val # <<>>

\* C3: set(key, value) never changes the key set of the name sub-table; for
\* a path the name sub-table holds it overwrites that name's value and
\* leaves the hash sub-table alone; for any other key it upserts the value
\* under the key's hash and leaves the name sub-table alone.
C3_SetChangesOneEntry ==
    call.op = "set" =>
        /\ MapKeys(table.name_table) = MapKeys(prev.name_table)
        /\ IF IsNamed(prev, call.key)
           THEN /\ table.crc_table = prev.crc_table
                /\ \A i \in 1..Len(prev.name_table) :
                      table.name_table[i].value =
                          IF Name_as_str(prev.name_table[i].key) = call.key.name
                          THEN call.value
                          ELSE prev.name_table[i].value
           ELSE /\ table.name_table = prev.name_table
                /\ Entries(table.crc_table) =
                      {e \in Entries(prev.crc_table) : e[1] # HashOf(call.key)}
                      \cup {<<HashOf(call.key), call.value>>}
                /\ Len(table.crc_table) = Cardinality(EntryKeys(table.crc_table))

\* a named path, whose hash the hash sub-table holds too, gets a new value
C3_Witness ==
    /\ call.op = "set"
    /\ IsNamed(prev, call.key)
    /\ HashedValues(prev, HashOf(call.key)) # {}
    /\ call.value \notin NamedValues(prev, call.key.name)
    /\ NamedValues(table, call.key.name) = {call.value}
    /\ Len(prev.name_table) = 2

\* C4: right after set(k, v), get(k) is Some(v) and contains(k) is true, and
\* set returned what get(k) was before the call.
C4_SetThenGet ==
    call.op = "set" =>
        /\ get(table, call.key) = Ok(Some(call.value))
        /\ contains(table, call.key) = Ok(TRUE)
        /\ call.ret = get(prev, call.key)

\* a path no file names replaces, through its hash, a value set before
C4_Witness ==
    /\ call.op = "set"
    /\ call.key = StringIndex(StrB)
    /\ call.ret = Ok(Some(U32(1)))
    /\ call.value = U32(2)
    /\ get(table, call.key) = Ok(Some(U32(2)))

\* C10: in every state of the table its hash keys are strictly ascending
\* and its name keys strictly ascending by logical string, and to_binary
\* emits exactly these, hash records first.
C10_SortedTables ==
    /\ \A i \in 1..(Len(table.crc_table) - 1) :
          WordCmp(table.crc_table[i].key, table.crc_table[i + 1].key) = "Less"
    /\ \A i \in 1..(Len(table.name_table) - 1) :
          StrCmp(LogicalString(table.name_table[i].key),
                 LogicalString(table.name_table[i + 1].key)) = "Less"
    /\ LET out == to_binary(table) IN
       /\ FileCrcCount(out) = Len(table.crc_table)
       /\ FileNameCount(out) = Len(table.name_table)
       /\ Len(out) = 22 + 8 * Len(table.crc_table) + 164 * Len(table.name_table)
       /\ FileSorted(out)
       /\ \A i \in 1..Len(table.crc_table) : FileHash(out, i) = table.crc_table[i].key
       /\ \A i \in 1..Len(table.name_table) :
             FileNameField(out, i) = table.name_table[i].key

\* a set put a new smallest hash in front of two others, beside two names
C10_Witness ==
    /\ call.op = "set"
    /\ Len(prev.crc_table) = 2 /\ Len(table.crc_table) = 3
    /\ table.crc_table[1].key = HashOf(call.key)
    /\ Len(table.name_table) = 2

\* ------------------------------------------------------------------------
\* SpecText: a table is written as text, a text is read line by line
\* ------------------------------------------------------------------------

MaxLines == 3

\* the records of the files whose tables are written: names that are a path,
\* a decimal number, a two-byte character and a string holding ": "
StrColon == <<97, 58, 32, 98>>

TextHashRecs ==
    { [hash |-> U32(5), value |-> U32(1)],
      [hash |-> hash_name(StrA), value |-> U32(2)] }

TextNameRecs ==
    { [name |-> Pad(StrA), value |-> U32(1)],
      [name |-> Pad(Str5), value |-> U32(2)],
      [name |-> Pad(StrE), value |-> U32(1)],
      [name |-> Pad(StrColon), value |-> U32(2)] }

TextFiles ==
    { BuildFile("honest", hs, ns) :
        hs \in SeqsUpTo(TextHashRecs, MaxHashRecs),
        ns \in SeqsUpTo(TextNameRecs, MaxNameRecs) }

\* the keys of input lines: "5", "a", "+5", the decimal digits of the hash of
\* "a", and 2^32; their values: "1" and "2"
DigitsOfHashA == <<51, 57, 48, 52, 51, 53, 53, 57, 48, 55>>
DigitsTooLarge == <<52, 50, 57, 52, 57, 54, 55, 50, 57, 54>>

TextKeys == {Str5, StrA, <<43, 53>>, DigitsOfHashA, DigitsTooLarge}
TextValues == {<<49>>, <<50>>}

KeyLine(k, v) == k \o <<58, 32>> \o v

\* well-formed lines, and: "a: x", "a", the empty line, "a: 1: 2"
InputLines ==
    { KeyLine(k, v) : k \in TextKeys, v \in TextValues }
    \cup { KeyLine(StrA, <<120>>), StrA, <<>>, KeyLine(StrA, KeyLine(<<49>>, <<50>>)) }

\* texts of up to MaxLines lines, each ended by a line feed; and a text whose
\* first line ends in CR LF and whose last line is not ended
InputTexts ==
    { Concat([i \in 1..Len(ls) |-> ls[i] \o <<10>>]) : ls \in SeqsUpTo(InputLines, MaxLines) }
    \cup { KeyLine(Str5, <<49>>) \o <<13, 10>> \o KeyLine(StrA, <<50>>) }

InitText ==
    /\ \/ /\ pc = "table"
          /\ \E file \in TextFiles :
                /\ from_binary(file).tag = "Ok"
                /\ table = from_binary(file).val
          /\ text = <<>>
          /\ call = [op |-> "from_binary"]
       \/ /\ pc = "text"
          /\ table = NoTable
          /\ text \in InputTexts
          /\ call = [op |-> "none"]
    /\ data = <<>>
    /\ lines = <<>>
    /\ prev = table

\* table.to_text().  Display of a Name that has no terminator is undefined:
\* the text may come out empty or cut short.
ToText ==
    /\ pc = "table"
    /\ IF \A i \in 1..Len(table.name_table) : HasTerminator(table.name_table[i].key)
       THEN text' = to_text(table)
       ELSE text' \in {<<>>, HashLines(table)}
    /\ call' = [op |-> "to_text", source |-> table]
    /\ prev' = table
    /\ pc' = "text"
    /\ UNCHANGED <<data, lines, table>>

\* from_text(text): ResourceSizeTable::default() and text.lines()
FromTextBegin ==
    /\ pc = "text"
    /\ lines' = str_lines(text)
    /\ table' = EmptyTable
    /\ prev' = table
    /\ call' = [op |-> "from_text",
                source |-> IF call.op = "to_text" THEN Some(call.source) ELSE None,
                line |-> None,
                ret |-> [tag |-> "Running"]]
    /\ pc' = "line"
    /\ UNCHANGED <<data, text>>

\* from_text: one turn of its loop; an error ends the call
FromTextLine ==
    /\ pc = "line"
    /\ Len(lines) > 0
    /\ LET r == from_text_line(table, Head(lines)) IN
       IF r.tag = "Ok"
       THEN /\ table' = r.val
            /\ lines' = Tail(lines)
            /\ call' = [call EXCEPT !.line = Some(Head(lines))]
            /\ pc' = "line"
       ELSE /\ IF r.tag = "Undefined" THEN table' \in {NoTable, EmptyTable}
               ELSE table' = NoTable
            /\ lines' = <<>>
            /\ call' = [call EXCEPT !.line = Some(Head(lines)), !.ret = r]
            /\ pc' = "done"
    /\ prev' = table
    /\ UNCHANGED <<data, text>>

\* from_text: the lines are exhausted, Ok(table)
FromTextEnd ==
    /\ pc = "line"
    /\ Len(lines) = 0
    /\ call' = [call EXCEPT !.line = None, !.ret = [tag |-> "Ok"]]
    /\ prev' = table
    /\ pc' = "done"
    /\ UNCHANGED <<data, text, lines, table>>

NextText == ToText \/ FromTextBegin \/ FromTextLine \/ FromTextEnd

SpecText == InitText /\ [][NextText]_vars

\* ---- the line from_text has just taken

\* from_text accepted a line and goes on
LineTaken == pc = "line" /\ call.op = "from_text" /\ call.line # None

TakenKey == SplitFirst(call.line[1])
TakenValue == parse_u32(SplitSecond(call.line[1])[1]).val

\* the entries of a map under keys other than k
Without(m, k) == {e \in Entries(m) : e[1] # k}

\* C7: from_text(to_text(t)) succeeds with a table t' such that t'.get(H) =
\* t.get(H) for every raw hash H of t's hash sub-table, t'.get(P) = t.get(P)
\* for every path P of t's name sub-table, and every key of t' is one t
\* resolves (a hash of t, the hash of a name of t, or a name of t).
C7_TextRoundTrip ==
    (pc = "done" /\ call.op = "from_text" /\ call.source # None) =>
        LET t == call.source[1] IN
        /\ call.ret.tag = "Ok"
        /\ \A i \in 1..Len(t.crc_table) :
              LET H == HashIndex(t.crc_table[i].key) IN get(table, H) = get(t, H)
        /\ \A i \in 1..Len(t.name_table) :
              LET P == StringIndex(LogicalString(t.name_table[i].key)) IN
              get(table, P) = get(t, P)
        /\ \A i \in 1..Len(table.crc_table) :
              \/ HashedValues(t, table.crc_table[i].key) # {}
              \/ \E j \in 1..Len(t.name_table) :
                    hash_name(LogicalString(t.name_table[j].key)) = table.crc_table[i].key
        /\ \A i \in 1..Len(table.name_table) :
              NamedValues(t, LogicalString(table.name_table[i].key)) # {}

C9_NameKeyAlwaysHashed ==
    (LineTaken /\ parse_u32(TakenKey).tag # "Ok") =>
        LET h == hash_name(TakenKey) IN
        /\ Entries(table.crc_table) = Without(prev.crc_table, h) \cup {<<h, TakenValue>>}
        /\ table.name_table = prev.name_table

\* C9 (amended): a line whose key is not a decimal u32 puts its value under
\* hash(key) in the hash sub-table only if hash(key) is not there yet; if it
\* is, the hash sub-table stays as it is and the value is inserted into the
\* name sub-table under the key, replacing the value the key had there.
C9_NameKeyHashedUnlessTaken ==
    (LineTaken /\ parse_u32(TakenKey).tag # "Ok") =>
        LET h == hash_name(TakenKey) IN
        IF HashedValues(prev, h) = {}
        THEN /\ Entries(table.crc_table) = Entries(prev.crc_table) \cup {<<h, TakenValue>>}
             /\ table.name_table = prev.name_table
        ELSE /\ table.crc_table = prev.crc_table
             /\ NamedValues(table, TakenKey) = {TakenValue}
             /\ \E i \in 1..Len(table.name_table) :
                   /\ LogicalString(table.name_table[i].key) = TakenKey
                   /\ Without(table.name_table, table.name_table[i].key)
                        = Without(prev.name_table, table.name_table[i].key)

\* the line "a: 2" arrives when the hash of "a" is taken: "a" becomes a name
C9_Witness ==
    /\ LineTaken
    /\ call.line = Some(KeyLine(StrA, <<50>>))
    /\ HashedValues(prev, hash_name(StrA)) # {}
    /\ prev.name_table = <<>>
    /\ NamedValues(table, StrA) = {U32(2)}
    /\ table.crc_table = prev.crc_table

\* ------------------------------------------------------------------------
\* SpecIter: next() is called on the iterator of a reader, again and again
\* ------------------------------------------------------------------------

MaxCalls == 7
BufferSlack == 1

\* the reader ResTblReader::new returned for the buffer
Reader == ResTblReader_new(data).val

\* reader.iter() on a buffer ResTblReader::new accepted: index 0, nothing
\* yielded yet
InitIter ==
    /\ data \in InputBuffers
    /\ ResTblReader_new(data).tag = "Ok"
    /\ text = <<>>
    /\ lines = <<>>
    /\ table = NoTable
    /\ prev = NoTable
    /\ call = [op |-> "iter", index |-> 0, item |-> None, yielded |-> <<>>,
               nones |-> 0, after_none |-> FALSE, calls |-> 0]
    /\ pc = "iter"

\* iterator.next().  `yielded` keeps the entries returned so far, `nones`
\* counts the calls that returned None, `after_none` tells that a None had
\* been returned before this call.  An unchecked read outside the buffer may
\* return anything.
IterNext ==
    /\ pc = "iter"
    /\ call.calls < MaxCalls
    /\ LET n == ResTblIterator_next(Reader, call.index) IN
       \E item \in IF n.tag = "Undefined"
                   THEN {None, Some([kind |-> "Hash", hash |-> U32(0), value |-> U32(0)])}
                   ELSE {n.item} :
           call' = [op |-> "next",
                    index |-> IF n.tag = "Undefined" THEN call.index + 1 ELSE n.index,
                    item |-> item,
                    yielded |-> IF item = None THEN call.yielded
                                ELSE Append(call.yielded, item[1]),
                    nones |-> call.nones + (IF item = None THEN 1 ELSE 0),
                    after_none |-> call.nones > 0,
                    calls |-> call.calls + 1]
    /\ UNCHANGED <<data, text, lines, table, prev, pc>>

\* ResourceSizeTable::from_parser(&reader)
FromParser ==
    /\ pc = "iter"
    /\ call.op = "iter"
    /\ LET r == from_parser(Reader) IN
       /\ call' = [op |-> "from_parser", ret |-> r]
       /\ IF r.tag = "Ok" THEN table' = r.val ELSE table' \in {NoTable, EmptyTable}
    /\ pc' = "table"
    /\ UNCHANGED <<data, text, lines, prev>>

\* reader.write_text_to_buf(buffer) on a zeroed buffer of some length around
\* the reader's min_size
BufferLens == {0, MinTextSize(Reader) - 1, MinTextSize(Reader),
               MinTextSize(Reader) + BufferSlack} \ {-1}

WriteTextToBuf ==
    /\ pc = "iter"
    /\ call.op = "iter"
    /\ \E len \in BufferLens :
         LET r == write_text_to_buf(Reader, [i \in 1..len |-> 0]) IN
         /\ call' = [op |-> "write_text_to_buf", len |-> len, ret |-> r]
         /\ text' = IF r.tag = "Ok" THEN r.val.buffer ELSE <<>>
    /\ pc' = "text"
    /\ UNCHANGED <<data, lines, table, prev>>

\* reader.get(k) and reader.contains(k)
ReaderGet ==
    /\ pc = "iter"
    /\ call.op = "iter"
    /\ \E k \in Keys :
         call' = [op |-> "ResTblReader::get", key |-> k,
                  ret |-> ResTblReader_get(Reader, k)]
    /\ pc' = "looked up"
    /\ UNCHANGED <<data, text, lines, table, prev>>

ReaderContains ==
    /\ pc = "iter"
    /\ call.op = "iter"
    /\ \E k \in Keys :
         call' = [op |-> "ResTblReader::contains", key |-> k,
                  ret |-> ResTblReader_contains(Reader, k)]
    /\ pc' = "looked up"
    /\ UNCHANGED <<data, text, lines, table, prev>>

NextIter == IterNext \/ FromParser \/ WriteTextToBuf \/ ReaderGet \/ ReaderContains

SpecIter == InitIter /\ [][NextIter]_vars

\* ---- what the file's header promises

\* every name record the header counts holds a UTF-8 string
NamesDecode(d) ==
    \A i \in 1..FileNameCount(d) : IsUtf8(LogicalString(FileNameField(d, i)))

\* the value of the i-th hash record and of the i-th name record
FileHashValue(d, i) ==
    LET at == 22 + 8 * (i - 1) + 4 IN
    <<d[at + 1] + 256 * d[at + 2], d[at + 3] + 256 * d[at + 4]>>
FileNameValue(d, i) ==
    LET at == 22 + 8 * FileCrcCount(d) + 164 * (i - 1) + 160 IN
    <<d[at + 1] + 256 * d[at + 2], d[at + 3] + 256 * d[at + 4]>>

\* the hashes of the file's records differ, and so do their logical strings
FileKeysDistinct(d) ==
    /\ \A i, j \in 1..FileCrcCount(d) : i # j => FileHash(d, i) # FileHash(d, j)
    /\ \A i, j \in 1..FileNameCount(d) :
          i # j => LogicalString(FileNameField(d, i)) # LogicalString(FileNameField(d, j))

\* C11: on an accepted buffer whose name records all decode, the entries
\* next() returns up to its first None are the crc_table_count hash records
\* and then the name_table_count name records of the file, in file order;
\* and from_parser of a file with distinct keys builds maps of these sizes.
C11_IterYieldsTheCountedRecords ==
    /\ (call.op = "next" /\ call.item = None /\ call.nones = 1 /\ NamesDecode(data)) =>
          /\ Len(call.yielded) = FileCrcCount(data) + FileNameCount(data)
          /\ \A i \in 1..Len(call.yielded) :
                IF i <= FileCrcCount(data)
                THEN /\ call.yielded[i].kind = "Hash"
                     /\ call.yielded[i].hash = FileHash(data, i)
                     /\ call.yielded[i].value = FileHashValue(data, i)
                ELSE /\ call.yielded[i].kind = "Name"
                     /\ LogicalString(call.yielded[i].name)
                          = LogicalString(FileNameField(data, i - FileCrcCount(data)))
                     /\ call.yielded[i].value = FileNameValue(data, i - FileCrcCount(data))
    /\ (call.op = "from_parser" /\ NamesDecode(data) /\ FileKeysDistinct(data)) =>
          /\ call.ret.tag = "Ok"
          /\ Len(table.crc_table) = FileCrcCount(data)
          /\ Len(table.name_table) = FileNameCount(data)

\* C20: once next() has returned None, every later call returns None.
C20_NoneIsFinal ==
    (call.op = "next" /\ call.after_none) => call.item = None

\* C12: from_binary of a buffer that passes the header and table-size checks
\* but holds a counted name record that is not UTF-8 returns an error.
C12_BadNameIsRejected ==
    (/\ call.op = "from_binary"
     /\ Len(data) >= 22
     /\ SubSeq(data, 1, 6) = <<82, 69, 83, 84, 66, 76>>
     /\ ~FileTooShort(data)
     /\ ~NamesDecode(data))
        => call.ret.tag = "Err"

\* C14: every Name that Name::try_from returned (here through
\* NameEntry::read, for an entry the iterator yields) holds a zero byte.
C14_NameHasTerminator ==
    (call.op = "next" /\ call.item # None /\ call.item[1].kind = "Name")
        => \E i \in 1..160 : call.item[1].name[i] = 0

\* C13: for every table reachable by set/remove/extend, to_binary(t) is
\* 22 + 8 * |crc_table| + 164 * |name_table| bytes long, its header holds
\* version 1, block size 160 and the two map sizes, from_binary accepts it
\* and returns t, entry for entry.
C13_EncodeThenDecode ==
    LET out == to_binary(table) IN
    /\ Len(out) = 22 + 8 * Len(table.crc_table) + 164 * Len(table.name_table)
    /\ SubSeq(out, 1, 6) = <<82, 69, 83, 84, 66, 76>>
    /\ FileCount(out, 6) = 1 /\ out[10] = 0
    /\ FileCount(out, 10) = 160 /\ out[14] = 0
    /\ FileCrcCount(out) = Len(table.crc_table) /\ out[18] = 0
    /\ FileNameCount(out) = Len(table.name_table) /\ out[22] = 0
    /\ from_binary(out) = Ok(table)

\* an extend has grown a table that holds hash and name entries
C13_Witness ==
    /\ call.op = "extend"
    /\ Len(table.crc_table) > Len(prev.crc_table)
    /\ Len(table.crc_table) >= 2
    /\ Len(table.name_table) >= 1
    /\ from_binary(to_binary(table)) = Ok(table)

\* ------------------------------------------------------------------------
\* SpecProbe: the unchecked reads of hash records, on every build
\* ------------------------------------------------------------------------
\* call.build is the build; call.probe is None or Some of the index the last
\* step handed to parse_hash_entry.  At most MaxProbes reads of one iteration
\* or one search are followed.

MaxProbes == 3

ProbeShapes == {"honest", "crc_more", "crc_huge", "extra_byte", "extra_record"}

ProbeBuffers ==
    { BuildFile(shape, hs, ns) :
        shape \in ProbeShapes,
        hs \in SeqsUpTo(InputHashRecs, MaxHashRecs),
        ns \in SeqsUpTo({[name |-> Pad(StrA), value |-> U32(3)]}, 1) }

ProbeHashes == {h.hash : h \in InputHashRecs}

InitProbe ==
    /\ data \in ProbeBuffers
    /\ text = <<>>
    /\ lines = <<>>
    /\ table = NoTable
    /\ prev = NoTable
    /\ \E build \in Builds : call = [op |-> "none", build |-> build]
    /\ pc = "input"

\* ResTblReader::new(data)
ProbeNew ==
    /\ pc = "input"
    /\ LET r == ResTblReader_new_on(call.build, data) IN
       /\ call' = [op |-> "new", build |-> call.build, ret |-> r, probe |-> None]
       /\ pc' = IF r.tag = "Ok" THEN "reader" ELSE "failed"
    /\ UNCHANGED <<data, text, lines, table, prev>>

\* a call of next() that yields from the hash table: reader.iter() is at
\* index 0, and each call reads the record at the iterator's index
ProbeIterNext ==
    /\ pc = "reader"
    /\ call.op \in {"new", "next"}
    /\ LET index == IF call.op = "new" THEN 0 ELSE call.index IN
       /\ index < MaxProbes
       /\ hash_table_index(call.ret.val, index) # None
       /\ call' = [op |-> "next", build |-> call.build, ret |-> call.ret,
                   probe |-> Some(hash_table_index(call.ret.val, index)[1]),
                   index |-> index + 1]
    /\ UNCHANGED <<data, text, lines, table, prev, pc>>

\* find_hash_entry(hash) up to its loop
ProbeFindBegin ==
    /\ pc = "reader"
    /\ call.op = "new"
    /\ \E hash \in ProbeHashes :
         call' = [op |-> "find_hash_entry", build |-> call.build, ret |-> call.ret,
                  probe |-> None, hash |-> hash, start |-> 0,
                  end |-> WordToInt(call.ret.val.header.crc_table_count),
                  found |-> FALSE, turns |-> 0]
    /\ UNCHANGED <<data, text, lines, table, prev, pc>>

\* one turn of the loop of find_hash_entry.  A read outside the buffer gives
\* an entry of any content, so the comparison may come out any way.
ProbeFindTurn ==
    /\ pc = "reader"
    /\ call.op = "find_hash_entry"
    /\ ~call.found
    /\ call.start < call.end
    /\ call.turns < MaxProbes
    /\ LET mid == (call.start + call.end) \div 2
           entry == parse_hash_entry(call.ret.val, mid)
       IN \E ordering \in (IF entry.tag = "Undefined"
                           THEN {"Less", "Greater", "Equal"}
                           ELSE {WordCmp(entry.val.hash, call.hash)}) :
            call' = [call EXCEPT !.probe = Some(mid),
                                 !.start = IF ordering = "Less" THEN mid + 1 ELSE @,
                                 !.end = IF ordering = "Greater" THEN mid ELSE @,
                                 !.found = (ordering = "Equal"),
                                 !.turns = @ + 1]
    /\ UNCHANGED <<data, text, lines, table, prev, pc>>

NextProbe == ProbeNew \/ ProbeIterNext \/ ProbeFindBegin \/ ProbeFindTurn

SpecProbe == InitProbe /\ [][NextProbe]_vars

\* the u32 at byte offset `at` of a buffer, for counts below 2^31
FileCountWide(d, at) == FileCount(d, at) + 16777216 * d[at + 4]

\* C15 (as stated): on every build, every index handed to parse_hash_entry by
\* a reader that new returned is below crc_table_count, and the 8 bytes of
\* its record lie inside the buffer.
C15_HashProbesAreInBounds ==
    (pc = "reader" /\ call.probe # None) =>
        /\ call.probe[1] < FileCountWide(data, 14)
        /\ HEADER_FULL_SIZE + HASH_ENTRY_SIZE <= Len(data)
        /\ call.probe[1]
               <= (Len(data) - HEADER_FULL_SIZE - HASH_ENTRY_SIZE) \div HASH_ENTRY_SIZE

\* the same on the builds where the size check cannot wrap: a 64-bit usize,
\* or overflow checks compiled in
C15_HashProbesAreInBoundsWithoutWrap ==
    (call.build.limbs = USIZE_LIMBS \/ call.build.overflow_checks)
        => C15_HashProbesAreInBounds

\* a probe of each kind has happened on a build where the check cannot wrap
C15_ProbedByIteration ==
    /\ pc = "reader" /\ call.op = "next" /\ call.index = 2
    /\ call.build.limbs = USIZE_LIMBS

C15_ProbedBySearch ==
    /\ pc = "reader" /\ call.op = "find_hash_entry" /\ call.found
    /\ call.build.limbs = USIZE_LIMBS

\* C16: write_text_to_buf returns InsufficientBuffer when the buffer is
\* shorter than crc_table_count * 23 + name_table_count * 173; with any
\* longer buffer the write completes inside the buffer and the length it
\* returns is at most that bound.
C16_WriteFitsTheBound ==
    LET bound == FileCrcCount(data) * 23 + FileNameCount(data) * 173 IN
    call.op = "write_text_to_buf" =>
        IF call.len < bound
        THEN call.ret = Err(InsufficientBuffer(USize(call.len), USize(bound)))
        ELSE /\ call.ret.tag = "Ok"
             /\ call.ret.val.pos <= bound
             /\ call.ret.val.pos <= call.len

\* the same for the files whose iteration ends with the counted records:
\* no room for a further record behind them, every name with a terminator
C16_WriteFitsTheBoundOfCountedFiles ==
    (/\ Len(data) < 22 + 8 * FileCrcCount(data) + 164 * (FileNameCount(data) + 1)
     /\ \A i \in 1..FileNameCount(data) : HasTerminator(FileNameField(data, i)))
        => C16_WriteFitsTheBound

\* the short-buffer half alone
C16_ShortBufferIsRefused ==
    LET bound == FileCrcCount(data) * 23 + FileNameCount(data) * 173 IN
    (call.op = "write_text_to_buf" /\ call.len < bound) =>
        call.ret = Err(InsufficientBuffer(USize(call.len), USize(bound)))

\* ---- from_text, line by line

HasSeparator(l) == \E i \in 1..(Len(l) - 1) : l[i] = 58 /\ l[i + 1] = 32

\* the line from_text has just gone through, if any
LineRead == call.op = "from_text" /\ call.line # None

\* a non-empty line without ": " fails with the format error carrying the
\* line; a non-empty line whose value (the piece after the first ": ") is
\* not a decimal u32 fails with the numeric-parse error; neither returns a
\* table
C18_MalformedLinesFail ==
    (LineRead /\ call.line[1] # <<>>) =>
        LET l == call.line[1] IN
        IF ~HasSeparator(l)
        THEN call.ret = Err(YamlError(l)) /\ table = NoTable
        ELSE parse_u32(SplitSecond(l)[1]).tag # "Ok" =>
                /\ call.ret.tag = "Err"
                /\ call.ret.err.kind = "YamlInvalidNumber"
                /\ table = NoTable

\* C18: from_text skips an empty line, wherever it stands, without an error
\* and goes on with the table as it was; a non-empty line without ": " fails
\* with the format error carrying the line, a non-empty line whose value is
\* not a decimal u32 fails with the numeric-parse error, and a failure
\* returns no table.
C18_EmptyLinesAreSkipped ==
    /\ (LineRead /\ call.line[1] = <<>>) =>
          call.ret.tag = "Running" /\ table = prev
    /\ C18_MalformedLinesFail

\* ---- remove

\* C19 (as stated): right after remove(k), contains(k) is false and get(k)
\* is None, and remove returned what get(k) was before the call.
C19_RemoveThenGone ==
    call.op = "remove" =>
        /\ get(table, call.key) = Ok(None)
        /\ contains(table, call.key) = Ok(FALSE)
        /\ call.ret = get(prev, call.key)

\* C19 (amended): remove(k) returns what get(k) was before the call and
\* takes away the one entry that get(k) read.  Afterwards get(k) is None and
\* contains(k) is false, unless k is a path that had an entry in the name
\* sub-table while the hash sub-table holds its hash: then only the name
\* entry is gone, contains(k) stays true and get(k) is the value under the
\* hash.
C19_RemoveTakesOneEntry ==
    call.op = "remove" =>
        /\ call.ret = get(prev, call.key)
        /\ ~IsNamed(table, call.key)
        /\ IF IsNamed(prev, call.key)
           THEN /\ table.crc_table = prev.crc_table
                /\ Len(table.name_table) = Len(prev.name_table) - 1
                /\ IF HashedValues(prev, HashOf(call.key)) = {}
                   THEN /\ get(table, call.key) = Ok(None)
                        /\ contains(table, call.key) = Ok(FALSE)
                   ELSE /\ \E v \in HashedValues(prev, HashOf(call.key)) :
                              get(table, call.key) = Ok(Some(v))
                        /\ contains(table, call.key) = Ok(TRUE)
           ELSE /\ table.name_table = prev.name_table
                /\ Entries(table.crc_table)
                     = {e \in Entries(prev.crc_table) : e[1] # HashOf(call.key)}
                /\ get(table, call.key) = Ok(None)
                /\ contains(table, call.key) = Ok(FALSE)

\* a path held by both sub-tables is removed: its name entry goes, and the
\* path still resolves, now to the value under its hash
C19_Witness ==
    /\ call.op = "remove"
    /\ IsNamed(prev, call.key)
    /\ HashedValues(prev, HashOf(call.key)) # {}
    /\ HashedValues(prev, HashOf(call.key)) # NamedValues(prev, call.key.name)
    /\ call.ret.tag = "Ok" /\ call.ret.val # None
    /\ get(table, call.key).val # None
    /\ contains(table, call.key) = Ok(TRUE)

\* a path held under its hash alone is removed and is gone
C19_WitnessHashed ==
    /\ call.op = "remove"
    /\ call.key.kind = "StringIndex"
    /\ ~IsNamed(prev, call.key)
    /\ call.ret.tag = "Ok" /\ call.ret.val # None
    /\ get(table, call.key) = Ok(None)

\* ---- the reader's lookups against the owned table's

\* C17: on a canonically sorted, duplicate-free file that new accepted,
\* reader.get(k) is from_parser(reader).get(k) and reader.contains(k) is
\* from_parser(reader).contains(k), for raw hashes and paths.
C17_ReaderAgreesWithTable ==
    /\ (call.op = "ResTblReader::get" /\ FileSorted(data)) =>
          /\ from_parser(Reader).tag = "Ok"
          /\ call.ret = get(from_parser(Reader).val, call.key)
    /\ (call.op = "ResTblReader::contains" /\ FileSorted(data)) =>
          /\ from_parser(Reader).tag = "Ok"
          /\ call.ret = contains(from_parser(Reader).val, call.key)

\* the same for the files whose iteration ends with the counted records: no
\* room for a further record behind them, every name decodes and has a
\* terminator
C17_ReaderAgreesWithTableOfCountedFiles ==
    (/\ Len(data) < 22 + 8 * FileCrcCount(data) + 164 * (FileNameCount(data) + 1)
     /\ NamesDecode(data)
     /\ \A i \in 1..FileNameCount(data) : HasTerminator(FileNameField(data, i)))
        => C17_ReaderAgreesWithTable

\* a path is found by the reader's search of a name table of two records
C17_FoundByName ==
    /\ call.op = "ResTblReader::get"
    /\ FileSorted(data)
    /\ FileNameCount(data) = 2
    /\ call.key.kind = "StringIndex"
    /\ call.ret = Ok(Some(U32(3)))

====
